---- MODULE Spec2Model ----
(***************************************************************************)
(* Model of the veles stencil-portal renderer: the math library            *)
(* (src/utils/math.ts), the camera controller (src/core/Camera.ts), the    *)
(* stencil manager (src/core/StencilManager.ts), the renderer and the      *)
(* geometry classes (src/core/Renderer.ts, src/geometry/SphereGeometry.ts), *)
(* the vertex shaders (src/shaders) and the application (VelesPortals,     *)
(* src/unnamed/part_000; load handler, src/index.ts).                      *)
(*                                                                         *)
(* Numbers.  A float is modelled as an integer count of thousandths        *)
(* (1.0 is One), with two sentinels for the IEEE values a division by      *)
(* zero produces.  Angles are counted in quarter turns, for which sine     *)
(* and cosine are exact.  One unit of model time is the time in which the  *)
(* cube's Z angle (time * 0.3 * 0.25) grows by a quarter turn; in that     *)
(* time the camera's orbit angle (time * 0.2) grows by 240 degrees.        *)
(***************************************************************************)
EXTENDS Integers, Sequences, FiniteSets, TLC

(***************************************************************************)
(* Bounds of the model.                                                    *)
(***************************************************************************)
\* Host timestamps handed to the frame callback range over 1..MaxTime.
MaxTime == 3
\* Window widths and heights range over {0, 400, ..., 400 * MaxDim} pixels.
MaxDim == 2

\* Box widths, heights and depths range over -0.8, 0 and 0.8 * (1..MaxBox).
MaxBox == 2
\* Requested sphere segment counts range over -0.5, 0, 0.5, ..., MaxSegments.
MaxSegments == 4
\* Euler angles range over 0..MaxAngle quarter turns.
MaxAngle == 3
\* Vector coordinates range over the integers -MaxCoord..MaxCoord and the
\* least positive float.
MaxCoord == 2
\* startAnimationLoop is called again only while the host has handed out
\* fewer than this many request ids.
MaxRequests == 2

Dims == {400 * k : k \in 0..MaxDim}
Times == 1..MaxTime

(***************************************************************************)
(* Floats as thousandths.                                                  *)
(***************************************************************************)
One == 1000
PosInf == 1000000 * One
NaN == -(2000000 * One)

IsFinite(a) == a # PosInf /\ a # -PosInf /\ a # NaN

Abs(a) == IF a < 0 THEN -a ELSE a

\* Integer quotient rounded toward zero.
TruncDiv(a, b) ==
  IF (a >= 0) = (b > 0) THEN Abs(a) \div Abs(b) ELSE -(Abs(a) \div Abs(b))

\* a / b on floats, with the IEEE results for zero and infinite operands.
FloatDiv(a, b) ==
  IF a = NaN \/ b = NaN THEN NaN
  ELSE IF ~IsFinite(a) /\ ~IsFinite(b) THEN NaN
  ELSE IF ~IsFinite(b) THEN 0
  ELSE IF b = 0 THEN (IF a = 0 THEN NaN ELSE IF a > 0 THEN PosInf ELSE -PosInf)
  ELSE IF ~IsFinite(a) THEN (IF (a > 0) = (b > 0) THEN PosInf ELSE -PosInf)
  ELSE TruncDiv(a * One, b)

\* a * b on finite floats.
FloatMul(a, b) == TruncDiv(a * b, One)

RECURSIVE SqrtSearch(_, _, _)
SqrtSearch(n, lo, hi) ==
  IF lo >= hi THEN lo
  ELSE LET mid == (lo + hi + 1) \div 2
       IN IF mid * mid <= n THEN SqrtSearch(n, mid, hi)
          ELSE SqrtSearch(n, lo, mid - 1)

\* Math.sqrt of a (a in thousandths, so sqrt(a/1000)*1000 = sqrt(a*1000)).
FloatSqrt(a) == SqrtSearch(a * One, 0, 46000)

\* Math.cos and Math.sin of an angle of q quarter turns.
CosQ(q) == LET r == q % 4 IN IF r = 0 THEN One ELSE IF r = 2 THEN -One ELSE 0
SinQ(q) == LET r == q % 4 IN IF r = 1 THEN One ELSE IF r = 3 THEN -One ELSE 0

\* Math.sin and Math.cos of the camera's orbit angle time * 0.2, which is
\* t * 240 degrees at model time t.
SinOrbit(t) == LET r == t % 3 IN IF r = 0 THEN 0 ELSE IF r = 1 THEN -866 ELSE 866
CosOrbit(t) == LET r == t % 3 IN IF r = 0 THEN One ELSE -500

Vec3(x, y, z) == [x |-> x, y |-> y, z |-> z]

(***************************************************************************)
(* src/utils/math.ts.  A matrix is the sequence of the 16 elements of its   *)
(* Float32Array; At reads the element of a source index 0..15.             *)
(***************************************************************************)
\* The typed array holding f[0], f[1], ... in this order.
Float32Array(f) == [n \in 1..Cardinality(DOMAIN f) |-> f[n - 1]]

\* array[k], for a source index k counted from 0.
At(array, k) == array[k + 1]

ZeroMatrix == Float32Array([k \in 0..15 |-> 0])

createIdentityMatrix ==
  Float32Array([k \in 0..15 |-> IF k \in {0, 5, 10, 15} THEN One ELSE 0])

\* 1 / tan(fov / 2) for the field of view of fov degrees.
InvTanHalf(fov) == IF fov = 45 THEN 2414 ELSE One

createProjectionMatrix(fov, aspect, near, far) ==
  LET f == InvTanHalf(fov)
      nf == FloatDiv(One, near - far)
  IN Float32Array([k \in 0..15 |->
        IF k = 0 THEN FloatDiv(f, aspect)
        ELSE IF k = 5 THEN f
        ELSE IF k = 10 THEN FloatMul(far + near, nf)
        ELSE IF k = 11 THEN -One
        ELSE IF k = 14 THEN FloatMul(FloatMul(2 * far, near), nf)
        ELSE 0])

crossProduct(a, b) ==
  Vec3(FloatMul(a.y, b.z) - FloatMul(a.z, b.y),
       FloatMul(a.z, b.x) - FloatMul(a.x, b.z),
       FloatMul(a.x, b.y) - FloatMul(a.y, b.x))

dotProduct(a, b) ==
  FloatMul(a.x, b.x) + FloatMul(a.y, b.y) + FloatMul(a.z, b.z)

normalizeVector(v) ==
  LET length == FloatSqrt(FloatMul(v.x, v.x) + FloatMul(v.y, v.y) + FloatMul(v.z, v.z))
  IN IF length = 0 THEN Vec3(0, 0, 0)
     ELSE Vec3(FloatDiv(v.x, length), FloatDiv(v.y, length), FloatDiv(v.z, length))

createViewMatrix(position, target, up) ==
  LET zAxis == normalizeVector(Vec3(position.x - target.x,
                                    position.y - target.y,
                                    position.z - target.z))
      xAxis == normalizeVector(crossProduct(up, zAxis))
      yAxis == normalizeVector(crossProduct(zAxis, xAxis))
  IN Float32Array([k \in 0..15 |->
        CASE k = 0 -> xAxis.x [] k = 1 -> yAxis.x [] k = 2 -> zAxis.x
          [] k = 4 -> xAxis.y [] k = 5 -> yAxis.y [] k = 6 -> zAxis.y
          [] k = 8 -> xAxis.z [] k = 9 -> yAxis.z [] k = 10 -> zAxis.z
          [] k = 12 -> -dotProduct(xAxis, position)
          [] k = 13 -> -dotProduct(yAxis, position)
          [] k = 14 -> -dotProduct(zAxis, position)
          [] k = 15 -> One
          [] OTHER -> 0])

createRotationYMatrix(angle) ==
  LET c == CosQ(angle)
      s == SinQ(angle)
  IN Float32Array([k \in 0..15 |->
        CASE k = 0 -> c [] k = 2 -> -s [] k = 8 -> s [] k = 10 -> c
          [] OTHER -> At(createIdentityMatrix, k)])

createRotationXMatrix(angle) ==
  LET c == CosQ(angle)
      s == SinQ(angle)
  IN Float32Array([k \in 0..15 |->
        CASE k = 5 -> c [] k = 6 -> s [] k = 9 -> -s [] k = 10 -> c
          [] OTHER -> At(createIdentityMatrix, k)])

\* Mutant of createRotationZMatrix: sine and cosine exchanged.
createRotationZMatrix_sineForCosine(angle) ==
  LET c == SinQ(angle)
      s == CosQ(angle)
  IN Float32Array([k \in 0..15 |->
        CASE k = 0 -> c [] k = 1 -> s [] k = 4 -> -s [] k = 5 -> c
          [] OTHER -> At(createIdentityMatrix, k)])

createRotationZMatrix(angle) ==
  LET c == CosQ(angle)
      s == SinQ(angle)
  IN Float32Array([k \in 0..15 |->
        CASE k = 0 -> c [] k = 1 -> s [] k = 4 -> -s [] k = 5 -> c
          [] OTHER -> At(createIdentityMatrix, k)])

multiplyMatrices(a, b) ==
  Float32Array([n \in 0..15 |->
     LET i == n \div 4
         j == n % 4
     IN FloatMul(At(a, i * 4 + 0), At(b, 0 * 4 + j))
        + FloatMul(At(a, i * 4 + 1), At(b, 1 * 4 + j))
        + FloatMul(At(a, i * 4 + 2), At(b, 2 * 4 + j))
        + FloatMul(At(a, i * 4 + 3), At(b, 3 * 4 + j))])

createRotationMatrix(x, y, z) ==
  LET rx == createRotationXMatrix(x)
      ry == createRotationYMatrix(y)
      rz == createRotationZMatrix(z)
      temp == multiplyMatrices(ry, rz)
  IN multiplyMatrices(rx, temp)

createTranslationMatrix(x, y, z) ==
  Float32Array([k \in 0..15 |->
     CASE k = 12 -> x [] k = 13 -> y [] k = 14 -> z
       [] OTHER -> At(createIdentityMatrix, k)])

createScalingMatrix(x, y, z) ==
  Float32Array([k \in 0..15 |->
     CASE k = 0 -> x [] k = 5 -> y [] k = 10 -> z
       [] OTHER -> At(createIdentityMatrix, k)])

\* rotation is in quarter turns, position and scale are floats.
createModelMatrix(position, rotation, scale) ==
  LET translationMatrix == createTranslationMatrix(position.x, position.y, position.z)
      rotationMatrix == createRotationMatrix(rotation.x, rotation.y, rotation.z)
      scaleMatrix == createScalingMatrix(scale.x, scale.y, scale.z)
      temp == multiplyMatrices(rotationMatrix, scaleMatrix)
  IN multiplyMatrices(translationMatrix, temp)

(***************************************************************************)
(* The vertex shaders (src/shaders/stencil.ts, src/shaders/object.ts).     *)
(***************************************************************************)
\* matrix * vector in WGSL: a mat4x4f uniform is read column by column, so
\* floats 4c .. 4c+3 of the block are column c, and element r of the product
\* is the sum over c of column c's element r times vector[c].
matTimesVec(matrix, vector) ==
  [r \in 1..4 |->
     FloatMul(At(matrix, 0 + r - 1), vector[1]) + FloatMul(At(matrix, 4 + r - 1), vector[2])
     + FloatMul(At(matrix, 8 + r - 1), vector[3]) + FloatMul(At(matrix, 12 + r - 1), vector[4])]

\* var worldPosition = transform.modelMatrix * vec4f(position, 1.0);
worldPosition(modelMatrix, position) ==
  matTimesVec(modelMatrix, <<position.x, position.y, position.z, One>>)

(***************************************************************************)
(* Device buffers.  A uniform buffer is the sequence of its float slots; a  *)
(* byte offset is four times a slot index.                                 *)
(***************************************************************************)
\* device.createBuffer({size}): a zero-filled buffer of size bytes.
createBuffer(size) == [n \in 1..(size \div 4) |-> 0]

\* device.queue.writeBuffer(buffer, bufferOffset, data, 0, size): size floats
\* of data, from its element 0, stored at byte offset bufferOffset.
writeBuffer(buffer, bufferOffset, data, size) ==
  [n \in 1..Len(buffer) |->
     LET k == n - 1
     IN IF k >= bufferOffset \div 4 /\ k < bufferOffset \div 4 + size
        THEN At(data, k - bufferOffset \div 4) ELSE At(buffer, k)]

(***************************************************************************)
(* Geometry (BoxGeometry, TransparentCube; src/core/Renderer.ts).          *)
(***************************************************************************)
\* BoxGeometry.createQuad: four vertices in the plane z = position.z.
createQuad(id, width, height, position) ==
  LET halfWidth == FloatDiv(width, 2 * One)
      halfHeight == FloatDiv(height, 2 * One)
      x0 == position.x - halfWidth
      x1 == position.x + halfWidth
      y0 == position.y - halfHeight
      y1 == position.y + halfHeight
      z == position.z
  IN [id |-> id,
      vertices |-> <<Vec3(x0, y0, z), Vec3(x1, y0, z), Vec3(x1, y1, z), Vec3(x0, y1, z)>>,
      indices |-> <<0, 1, 2, 0, 2, 3>>,
      indexCount |-> 6]

Vec4(x, y, z, w) == [x |-> x, y |-> y, z |-> z, w |-> w]

\* new Uint16Array(values): each value kept modulo 2^16.
Uint16Array(values) == [n \in 1..Len(values) |-> values[n] % 65536]

\* Mutant of boxIndices: the left face closes on the vertex after the last.
boxIndices_pastTheEnd ==
  <<0, 1, 2, 0, 2, 3,  4, 6, 5, 4, 7, 6,  8, 9, 10, 8, 10, 11,
    12, 14, 13, 12, 15, 14,  16, 18, 17, 16, 19, 18,  20, 21, 22, 20, 22, 24>>

\* The index list of BoxGeometry.create: front, back, top, bottom, right, left.
boxIndices ==
  <<0, 1, 2, 0, 2, 3,  4, 6, 5, 4, 7, 6,  8, 9, 10, 8, 10, 11,
    12, 14, 13, 12, 15, 14,  16, 18, 17, 16, 19, 18,  20, 21, 22, 20, 22, 23>>

\* BoxGeometry.create: the contents written to the vertex, colour and index
\* buffers (a vertex is the three floats of one 12-byte stride, a colour the
\* four floats of one 16-byte stride) and the returned indexCount.
BoxGeometry_create(width, height, depth, color, position) ==
  LET x0 == position.x - FloatDiv(width, 2 * One)
      x1 == position.x + FloatDiv(width, 2 * One)
      y0 == position.y - FloatDiv(height, 2 * One)
      y1 == position.y + FloatDiv(height, 2 * One)
      z0 == position.z - FloatDiv(depth, 2 * One)
      z1 == position.z + FloatDiv(depth, 2 * One)
      vertices ==
        <<Vec3(x0, y0, z1), Vec3(x1, y0, z1), Vec3(x1, y1, z1), Vec3(x0, y1, z1),
          Vec3(x0, y0, z0), Vec3(x1, y0, z0), Vec3(x1, y1, z0), Vec3(x0, y1, z0),
          Vec3(x0, y1, z0), Vec3(x1, y1, z0), Vec3(x1, y1, z1), Vec3(x0, y1, z1),
          Vec3(x0, y0, z0), Vec3(x1, y0, z0), Vec3(x1, y0, z1), Vec3(x0, y0, z1),
          Vec3(x1, y0, z0), Vec3(x1, y1, z0), Vec3(x1, y1, z1), Vec3(x1, y0, z1),
          Vec3(x0, y0, z0), Vec3(x0, y1, z0), Vec3(x0, y1, z1), Vec3(x0, y0, z1)>>
      faceColors ==
        <<Vec4(color.x, color.y, color.z, color.w), Vec4(color.y, color.x, color.z, color.w),
          Vec4(color.z, color.x, color.y, color.w), Vec4(color.x, color.y, 0, color.w),
          Vec4(0, color.y, color.z, color.w), Vec4(color.x, 0, color.z, color.w)>>
      colors == [n \in 1..24 |-> faceColors[(n - 1) \div 4 + 1]]
      indices == Uint16Array(boxIndices)
  IN [vertices |-> vertices, colors |-> colors, indices |-> indices,
      indexCount |-> Len(indices)]

(***************************************************************************)
(* SphereGeometry (src/geometry/SphereGeometry.ts).  A segment count is a  *)
(* float on entry and an integer after Math.floor.  A vertex is kept by    *)
(* the grid position (ix, iy) its angles phi = 2 pi ix / widthSegments and *)
(* theta = pi iy / heightSegments are computed from.                       *)
(***************************************************************************)
\* Math.floor of a float, as an integer.
MathFloor(a) == a \div One

\* Math.max of two integers.
MathMax(a, b) == IF a >= b THEN a ELSE b

\* Lines 16-17: Math.max(minimum, Math.floor(segments)).
clampSegments(minimum, segments) == MathMax(minimum, MathFloor(segments))

\* Lines 24-56: the two vertex loops, from (iy, ix) on; st is [vertices, grid,
\* row], row being the row under construction.
RECURSIVE sphereVertexLoop(_, _, _, _, _)
sphereVertexLoop(iy, ix, widthSegments, heightSegments, st) ==
  IF iy > heightSegments THEN st
  ELSE IF ix > widthSegments
       THEN sphereVertexLoop(iy + 1, 0, widthSegments, heightSegments,
                             [st EXCEPT !.grid = Append(st.grid, st.row), !.row = << >>])
       ELSE LET vertices == Append(st.vertices, [ix |-> ix, iy |-> iy])
            IN sphereVertexLoop(iy, ix + 1, widthSegments, heightSegments,
                                [st EXCEPT !.vertices = vertices,
                                           !.row = Append(st.row, Len(vertices) - 1)])

\* Mutant of sphereIndexLoop: both triangles of a quad are emitted in every
\* row, the pole rows included.
RECURSIVE sphereIndexLoop_noPoleTest(_, _, _, _, _, _)
sphereIndexLoop_noPoleTest(iy, ix, widthSegments, heightSegments, grid, indices) ==
  IF iy >= heightSegments THEN indices
  ELSE IF ix >= widthSegments
       THEN sphereIndexLoop_noPoleTest(iy + 1, 0, widthSegments, heightSegments, grid, indices)
       ELSE LET a == At(At(grid, iy), ix + 1)
                b == At(At(grid, iy), ix)
                c == At(At(grid, iy + 1), ix)
                d == At(At(grid, iy + 1), ix + 1)
            IN sphereIndexLoop_noPoleTest(iy, ix + 1, widthSegments, heightSegments, grid,
                                          indices \o <<a, b, d>> \o <<b, c, d>>)

\* Lines 59-70: the two index loops, from (iy, ix) on.
RECURSIVE sphereIndexLoop(_, _, _, _, _, _)
sphereIndexLoop(iy, ix, widthSegments, heightSegments, grid, indices) ==
  IF iy >= heightSegments THEN indices
  ELSE IF ix >= widthSegments
       THEN sphereIndexLoop(iy + 1, 0, widthSegments, heightSegments, grid, indices)
       ELSE LET a == At(At(grid, iy), ix + 1)
                b == At(At(grid, iy), ix)
                c == At(At(grid, iy + 1), ix)
                d == At(At(grid, iy + 1), ix + 1)
                upper == IF iy # 0 THEN indices \o <<a, b, d>> ELSE indices
                lower == IF iy # heightSegments - 1 THEN upper \o <<b, c, d>> ELSE upper
            IN sphereIndexLoop(iy, ix + 1, widthSegments, heightSegments, grid, lower)

\* SphereGeometry.create: the vertices generated, the contents written to the
\* index buffer and the returned indexCount.
SphereGeometry_create(radius, widthSegments, heightSegments, color, position) ==
  LET w == clampSegments(3, widthSegments)
      h == clampSegments(2, heightSegments)
      st == sphereVertexLoop(0, 0, w, h, [vertices |-> << >>, grid |-> << >>, row |-> << >>])
      indicesArray == Uint16Array(sphereIndexLoop(0, 0, w, h, st.grid, << >>))
  IN [vertices |-> st.vertices, indices |-> indicesArray,
      indexCount |-> Len(indicesArray)]

\* Lines 47-53: the number vertices.length / 3 - 1 the inner loop pushes onto
\* the row for (iy, ix), the rows before holding widthSegments + 1 vertices
\* each: the value of grid[iy][ix].
gridNumber(iy, ix, widthSegments) == iy * (widthSegments + 1) + ix

\* Lines 62-68 for one (iy, ix) of the index loops, and what line 108 makes
\* of the indices pushed there on their way into the index buffer.
sphereIndexBody(iy, ix, widthSegments, heightSegments) ==
  LET a == gridNumber(iy, ix + 1, widthSegments)
      b == gridNumber(iy, ix, widthSegments)
      c == gridNumber(iy + 1, ix, widthSegments)
      d == gridNumber(iy + 1, ix + 1, widthSegments)
      pushed == (IF iy # 0 THEN <<a, b, d>> ELSE << >>)
                \o (IF iy # heightSegments - 1 THEN <<b, c, d>> ELSE << >>)
  IN [computed |-> pushed, uploaded |-> Uint16Array(pushed)]

\* The cube size the application constructs its TransparentCube with.
CubeSize == 2000

faceFacePositions(halfSize) ==
  <<Vec3(0, 0, halfSize), Vec3(0, 0, -halfSize),
    Vec3(0, halfSize, 0), Vec3(0, -halfSize, 0),
    Vec3(halfSize, 0, 0), Vec3(-halfSize, 0, 0)>>

\* The face orientations, in quarter turns (Math.PI / 2 is 1, Math.PI is 2).
faceRotations ==
  <<Vec3(0, 0, 0), Vec3(0, 2, 0), Vec3(1, 0, 0),
    Vec3(-1, 0, 0), Vec3(0, 1, 0), Vec3(0, -1, 0)>>

\* Mutant of faceStencilValue: the loop index itself, without the + 1.
faceStencilValue_zeroBased(i) == i

\* The stencil value createFaces gives the face of loop index i.
faceStencilValue(i) == i + 1

\* TransparentCube.createFaces: the faces array after the loop; face i of the
\* source is element i + 1 of the sequence.
createFaces(size) ==
  LET halfSize == FloatDiv(size, 2 * One)
      faceSize == FloatMul(size, 950)
  IN [n \in 1..6 |->
        [geometry |-> createQuad(n, faceSize, faceSize, faceFacePositions(halfSize)[n]),
         stencilValue |-> faceStencilValue(n - 1),
         transform |-> createRotationMatrix(faceRotations[n].x, faceRotations[n].y,
                                            faceRotations[n].z)]]

\* The matrix TransparentCube.updateRotation computes for time: the angle
\* time * rotationSpeed is 4 * time quarter turns.
rotationAt(time) ==
  LET angle == 4 * time
  IN createRotationMatrix(angle \div 2, angle, angle \div 4)

\* Handles of the three solid meshes (their vertex data is not needed to
\* sequence the draws).
outerCubeGeometry == [id |-> 0, indexCount |-> 36]
innerCubeGeometry == [id |-> 7, indexCount |-> 36]
\* SphereGeometry.create(device, 0.6, 24, 18, ...): 6 * 24 * (18 - 1) indices.
innerSphereGeometry == [id |-> 8, indexCount |-> 6 * 24 * 17]

(***************************************************************************)
(* Camera (src/core/Camera.ts).                                            *)
(***************************************************************************)
updateViewMatrix(cam) ==
  [cam EXCEPT !.viewMatrix = createViewMatrix(cam.position, Vec3(0, 0, 0), Vec3(0, One, 0))]

\* Mutant of updateProjectionMatrix: the aspect ratio taken as height / width.
updateProjectionMatrix_invertedAspect(cam, cv) ==
  [cam EXCEPT !.projectionMatrix =
     createProjectionMatrix(45, FloatDiv(cv.height, cv.width), 100, 100 * One)]

updateProjectionMatrix(cam, cv) ==
  LET aspect == FloatDiv(cv.width, cv.height)
      fov == 45
      near == 100
      far == 100 * One
  IN [cam EXCEPT !.projectionMatrix = createProjectionMatrix(fov, aspect, near, far)]

\* new CameraController(position, device, canvas)
newCameraController(position, cv) ==
  updateProjectionMatrix(
    updateViewMatrix([position |-> position, viewMatrix |-> ZeroMatrix,
                      projectionMatrix |-> ZeroMatrix]), cv)

\* CameraController.updateUniformBuffer: two writes, at byte offsets 0 and 64.
updateUniformBuffer(buffer, cam) ==
  writeBuffer(writeBuffer(buffer, 0, cam.viewMatrix, 16), 64, cam.projectionMatrix, 16)

\* CameraController.createUniformBuffer
createUniformBuffer(cam) == updateUniformBuffer(createBuffer(128), cam)

\* Mutant of cameraHandleResize: the resize also puts the camera back at its
\* initial position.
cameraHandleResize_resetsView(cam, cv) ==
  updateProjectionMatrix(updateViewMatrix([cam EXCEPT !.position = Vec3(0, 0, 5 * One)]), cv)

\* CameraController.handleResize
cameraHandleResize(cam, cv) == updateProjectionMatrix(cam, cv)

\* Mutant of orbitCamera: the orbit also recomputes the projection, for a
\* square canvas.
orbitCamera_squareProjection(cam, time) ==
  LET radius == 5 * One
      moved == updateViewMatrix([cam EXCEPT !.position =
                  Vec3(FloatMul(SinOrbit(time), radius), 1500, FloatMul(CosOrbit(time), radius))])
  IN [moved EXCEPT !.projectionMatrix = createProjectionMatrix(45, One, 100, 100 * One)]

\* CameraController.orbitCamera
orbitCamera(cam, time) ==
  LET radius == 5 * One
  IN updateViewMatrix([cam EXCEPT !.position =
        Vec3(FloatMul(SinOrbit(time), radius), 1500, FloatMul(CosOrbit(time), radius))])

(***************************************************************************)
(* Pipelines (Renderer.createRenderPipelines, StencilManager): the depth   *)
(* and stencil state of each, and their cull mode.                         *)
(***************************************************************************)
\* Renderer.createBindGroupLayouts: each bind group layout is the set of its
\* binding numbers; the pipeline layout lists them by group, camera first.
cameraBindGroupLayout == {0}
transformBindGroupLayout == {0}
pipelineLayout == <<cameraBindGroupLayout, transformBindGroupLayout>>

\* The uniform declarations of the vertex shaders: @binding(b) @group(g).
stencilVertexShader ==
  [camera |-> [group |-> 0, binding |-> 0], transform |-> [group |-> 0, binding |-> 1]]
objectVertexShader ==
  [camera |-> [group |-> 0, binding |-> 0], transform |-> [group |-> 1, binding |-> 0]]
transparentVertexShader ==
  [camera |-> [group |-> 0, binding |-> 0], transform |-> [group |-> 1, binding |-> 0]]

\* A target without a blend state writes the fragment's colour as it is.
NoBlend == [srcFactor |-> "one", dstFactor |-> "zero"]

\* stencilFront and stencilBack are equal in each pipeline and kept once.
stencilPipeline ==
  [name |-> "stencil", layout |-> pipelineLayout, vertex |-> stencilVertexShader,
   blend |-> [srcFactor |-> "zero", dstFactor |-> "one"],
   depthWriteEnabled |-> FALSE, depthCompare |-> "always", stencilCompare |-> "always",
   failOp |-> "keep", depthFailOp |-> "keep", passOp |-> "replace",
   stencilReadMask |-> 255, stencilWriteMask |-> 255, cullMode |-> "none"]

\* Mutant of objectPipeline: created with the stencil state of the stencil
\* pipeline, so the inner solids stamp their reference into the buffer.
objectPipeline_writesStencil ==
  [name |-> "object", layout |-> pipelineLayout, vertex |-> objectVertexShader,
   blend |-> NoBlend,
   depthWriteEnabled |-> TRUE, depthCompare |-> "less", stencilCompare |-> "always",
   failOp |-> "keep", depthFailOp |-> "keep", passOp |-> "replace",
   stencilReadMask |-> 255, stencilWriteMask |-> 255, cullMode |-> "back"]

objectPipeline ==
  [name |-> "object", layout |-> pipelineLayout, vertex |-> objectVertexShader,
   blend |-> NoBlend,
   depthWriteEnabled |-> TRUE, depthCompare |-> "less", stencilCompare |-> "equal",
   failOp |-> "keep", depthFailOp |-> "keep", passOp |-> "keep",
   stencilReadMask |-> 255, stencilWriteMask |-> 0, cullMode |-> "back"]

transparentPipeline ==
  [name |-> "transparent", layout |-> pipelineLayout, vertex |-> transparentVertexShader,
   blend |-> [srcFactor |-> "src-alpha", dstFactor |-> "one-minus-src-alpha"],
   depthWriteEnabled |-> TRUE, depthCompare |-> "less", stencilCompare |-> "always",
   failOp |-> "keep", depthFailOp |-> "keep", passOp |-> "keep",
   stencilReadMask |-> 255, stencilWriteMask |-> 0, cullMode |-> "none"]

\* What the GPU does with one fragment of a draw, given the pipeline's
\* depthStencil and blend state and the stencil reference in effect: the
\* stencil test, the depth test, the stencil operation under the write mask,
\* the depth write and the blended colour.  A pixel is [color, depth,
\* stencil], a fragment [color, alpha, depth].
RECURSIVE BitAnd(_, _)
BitAnd(a, b) ==
  IF a = 0 \/ b = 0 THEN 0
  ELSE (a % 2) * (b % 2) + 2 * BitAnd(a \div 2, b \div 2)

Compare(function, a, b) ==
  CASE function = "always" -> TRUE
    [] function = "equal" -> a = b
    [] function = "less" -> a < b

StencilOperation(op, stored, reference) ==
  CASE op = "keep" -> stored
    [] op = "replace" -> reference

BlendFactor(factor, alpha) ==
  CASE factor = "zero" -> 0
    [] factor = "one" -> One
    [] factor = "src-alpha" -> alpha
    [] factor = "one-minus-src-alpha" -> One - alpha

fragmentOperations(pipeline, reference, pixel, fragment) ==
  LET stencilPass == Compare(pipeline.stencilCompare,
                             BitAnd(reference, pipeline.stencilReadMask),
                             BitAnd(pixel.stencil, pipeline.stencilReadMask))
      depthPass == Compare(pipeline.depthCompare, fragment.depth, pixel.depth)
      op == IF ~stencilPass THEN pipeline.failOp
            ELSE IF ~depthPass THEN pipeline.depthFailOp
            ELSE pipeline.passOp
      stamped == StencilOperation(op, pixel.stencil, reference)
      drawn == stencilPass /\ depthPass
  IN [stencil |-> BitAnd(pixel.stencil, 255 - pipeline.stencilWriteMask)
                  + BitAnd(stamped, pipeline.stencilWriteMask),
      depth |-> IF drawn /\ pipeline.depthWriteEnabled THEN fragment.depth ELSE pixel.depth,
      color |-> IF drawn
                THEN FloatMul(fragment.color, BlendFactor(pipeline.blend.srcFactor, fragment.alpha))
                     + FloatMul(pixel.color, BlendFactor(pipeline.blend.dstFactor, fragment.alpha))
                ELSE pixel.color]

(***************************************************************************)
(* State.                                                                  *)
(***************************************************************************)
VARIABLES
  gpu,                     \* host: [present, adapter], what navigator.gpu offers
  window,                  \* host: [innerWidth, innerHeight]
  canvas,                  \* [width, height]
  pc,                      \* where the page's script is
  i,                       \* loop index of the pass being drawn
  now,                     \* host: the last frame timestamp handed out
  time,                    \* timeInSeconds of the running tick
  created,                 \* the device objects and listeners that exist
  depthStencilTexture,     \* Renderer: [width, height, destroyed]
  pipelines,               \* Renderer, StencilManager: the pipelines created
  bindGroups,              \* the long-lived bind groups, each [name, buffer]
  camera,                  \* CameraController.camera
  cameraUniformBuffer,     \* the 128-byte buffer of cameraBindGroup
  faces,                   \* TransparentCube.faces
  rotationMatrix,          \* TransparentCube.rotationMatrix.data
  rotationTransformBuffer, \* TransparentCube.rotationTransformBuffer
  identityTransformBuffer, \* VelesPortals.identityTransformBuffer
  animationFrameId,        \* Renderer.animationFrameId
  pending,                 \* host: the animation-frame requests not yet run
  nextFrameId,             \* host: the id requestAnimationFrame returns next
  frame,                   \* what the running (or last) tick queued, in order
  renders,                 \* how many times the render callback was entered
  stopped,                 \* stopAnimationLoop was called, and renders then
  errorShown,              \* index.ts caught an error and replaced the page
  call,                    \* a library function called on its own: [fn, arguments]
  result                   \* what that call returned: [returned, value]

vars ==
  <<gpu, window, canvas, pc, i, now, time, created, depthStencilTexture, pipelines,
    bindGroups, camera, cameraUniformBuffer, faces, rotationMatrix,
    rotationTransformBuffer, identityTransformBuffer, animationFrameId, pending,
    nextFrameId, frame, renders, stopped, errorShown, call, result>>

libraryVars == <<call, result>>
hostVars == <<gpu, now, time>>
surfaceVars == <<window, canvas, depthStencilTexture>>
deviceVars == <<pipelines, bindGroups>>
cameraVars == <<camera, cameraUniformBuffer>>
cubeVars == <<faces, rotationMatrix, rotationTransformBuffer>>
loopVars == <<animationFrameId, pending, nextFrameId>>

NotStopped == [called |-> FALSE, renders |-> 0]
NotReturned == [returned |-> FALSE]

\* The page before its load event.
PageNotLoaded ==
  /\ canvas = [width |-> 300, height |-> 150]
  /\ pc = "start"
  /\ i = 0
  /\ now = 0
  /\ time = 0
  /\ created = {}
  /\ depthStencilTexture = [width |-> 0, height |-> 0, destroyed |-> FALSE]
  /\ pipelines = {}
  /\ bindGroups = {}
  /\ camera = [position |-> Vec3(0, 0, 0), viewMatrix |-> ZeroMatrix,
               projectionMatrix |-> ZeroMatrix]
  /\ cameraUniformBuffer = createBuffer(128)
  /\ faces = << >>
  /\ rotationMatrix = ZeroMatrix
  /\ rotationTransformBuffer = createBuffer(64)
  /\ identityTransformBuffer = createBuffer(64)
  /\ animationFrameId = 0
  /\ pending = {}
  /\ nextFrameId = 1
  /\ frame = << >>
  /\ renders = 0
  /\ stopped = NotStopped
  /\ errorShown = FALSE

Init ==
  /\ gpu \in [present : BOOLEAN, adapter : BOOLEAN]
  /\ window \in [innerWidth : Dims, innerHeight : Dims]
  /\ PageNotLoaded
  /\ call = [fn |-> "none"]
  /\ result = NotReturned

(***************************************************************************)
(* Renderer (src/core/Renderer.ts) and StencilManager helpers.             *)
(***************************************************************************)
\* Renderer.initialize, line 44: navigator.gpu is absent.
gpuMissing(g) == ~g.present

\* Mutant of adapterMissing: the null adapter is not checked for.
adapterMissing_unchecked(g) == FALSE

\* Renderer.initialize, line 49: requestAdapter resolved to null.
adapterMissing(g) == ~g.adapter

\* Renderer.createDepthStencilTexture
createDepthStencilTexture(cv) ==
  [width |-> cv.width, height |-> cv.height, destroyed |-> FALSE]

\* GPUTexture.destroy
destroy(texture) == [texture EXCEPT !.destroyed = TRUE]

\* The canvas after "canvas.width = window.innerWidth; canvas.height = ...".
sizedToWindow(w) == [width |-> w.innerWidth, height |-> w.innerHeight]

cameraBindGroup == [name |-> "cameraBindGroup", buffer |-> "cameraUniformBuffer"]
identityBindGroup == [name |-> "identityBindGroup", buffer |-> "identityTransformBuffer"]
\* Mutant of cubeTransformBindGroup: the frame's bind group made over the
\* identity buffer.
cubeTransformBindGroup_identity ==
  [name |-> "cubeTransformBindGroup", buffer |-> "identityTransformBuffer"]

\* VelesPortals.render, lines 107-109: the bind group made for this frame.
cubeTransformBindGroup ==
  [name |-> "cubeTransformBindGroup", buffer |-> "rotationTransformBuffer"]

\* The queued command of device.queue.writeBuffer(buffer, offset, data, 0, size).
writeCommand(buffer, offset, size) ==
  [op |-> "writeBuffer", buffer |-> buffer, offset |-> offset, bytes |-> 4 * size]

\* Renderer.beginRenderPass: all three load operations are "clear", with the
\* colour 0.05 (of the red channel), depth 1.0 and stencil 0.
beginRenderPass(texture) ==
  [op |-> "beginRenderPass", depthStencil |-> texture, clearValue |-> 50,
   depthClearValue |-> One, stencilClearValue |-> 0]

\* StencilManager.renderStencilMask
renderStencilMask(geometry, stencilValue, bindGroup, transformBindGroup) ==
  [op |-> "drawIndexed", pipeline |-> "stencil", stencilReference |-> stencilValue,
   group0 |-> bindGroup.buffer, group1 |-> transformBindGroup.buffer,
   geometry |-> geometry.id, indexCount |-> geometry.indexCount]

\* Renderer.renderObject
renderObject(geometry, stencilValue, transformBindGroup) ==
  [op |-> "drawIndexed", pipeline |-> "object", stencilReference |-> stencilValue,
   group0 |-> cameraBindGroup.buffer, group1 |-> transformBindGroup.buffer,
   geometry |-> geometry.id, indexCount |-> geometry.indexCount]

\* Renderer.renderTransparentObject: sets no stencil reference of its own.
renderTransparentObject(geometry, transformBindGroup) ==
  [op |-> "drawIndexed", pipeline |-> "transparent",
   group0 |-> cameraBindGroup.buffer, group1 |-> transformBindGroup.buffer,
   geometry |-> geometry.id, indexCount |-> geometry.indexCount]

\* Mutant of innerSolid: the parity test inverted.
innerSolid_swapped(n) == IF n % 2 = 0 THEN innerSphereGeometry ELSE innerCubeGeometry

\* The inner solid VelesPortals.render draws for face index n (lines 134-148).
innerSolid(n) == IF n % 2 = 0 THEN innerCubeGeometry ELSE innerSphereGeometry

\* The stencil reference VelesPortals.render uses for face index n (line 131).
gateStencilValue(n) == n + 1

\* The bind group VelesPortals.render hands to renderObject (lines 139, 146).
innerTransformBindGroup == identityBindGroup

\* Mutant of afterStencilMasks: the shell is drawn right after the masks.
afterStencilMasks_shellFirst == "pass3"

\* The position in VelesPortals.render after the forEach of pass 1 (line 129),
\* after the loop of pass 2 (line 151) and after the shell draw (line 158).
afterStencilMasks == "pass2"
afterInnerSolids == "pass3"
afterOuterShell == "endPass"

\* Mutant of setupTransforms: the buffer is created and never written.
setupTransforms_unwritten == createBuffer(64)

\* VelesPortals.setupTransforms, lines 74-97: the 64-byte buffer it creates,
\* after its one writeBuffer of the identity matrix.
setupTransforms == writeBuffer(createBuffer(64), 0, createIdentityMatrix, 16)

\* cancelAnimationFrame(id): the request of that id, if pending, is dropped.
cancelAnimationFrame(requests, id) == requests \ {id}

\* Mutant of stopAnimationLoop: the pending request is not cancelled.
stopAnimationLoop_cancelsNothing(requests, id) == requests

\* Renderer.stopAnimationLoop
stopAnimationLoop(requests, id) ==
  IF id # 0 THEN cancelAnimationFrame(requests, id) ELSE requests

\* What the history variable records at a call of stopAnimationLoop.
noteStop(s, n) == IF s.called THEN s ELSE [called |-> TRUE, renders |-> n]

(***************************************************************************)
(* Actions.  The page's script is single-threaded: a handler runs to its   *)
(* end (or to an await) before the host delivers the next event, so host   *)
(* events are taken only at "idle" and at the two awaits.                  *)
(***************************************************************************)
\* index.ts load handler, lines 5-19, into Renderer.initialize up to its
\* first await (lines 43-48); the catch of lines 25-35 when it throws.
Load ==
  /\ pc = "start"
  /\ canvas' = sizedToWindow(window)
  /\ IF gpuMissing(gpu)
     THEN pc' = "failed" /\ errorShown' = TRUE
     ELSE pc' = "awaitAdapter" /\ UNCHANGED errorShown
  /\ UNCHANGED <<libraryVars, hostVars, window, depthStencilTexture, deviceVars, cameraVars, cubeVars,
                 identityTransformBuffer, loopVars, i, created, frame, renders, stopped>>

\* Renderer.initialize, lines 48-53: requestAdapter resolves.
AdapterResolved ==
  /\ pc = "awaitAdapter"
  /\ IF adapterMissing(gpu)
     THEN pc' = "failed" /\ errorShown' = TRUE
     ELSE pc' = "awaitDevice" /\ UNCHANGED errorShown
  /\ UNCHANGED <<libraryVars, hostVars, surfaceVars, deviceVars, cameraVars, cubeVars,
                 identityTransformBuffer, loopVars, i, created, frame, renders, stopped>>

\* requestDevice resolves: the rest of Renderer.initialize (lines 53-99), then
\* VelesPortals.createGeometries, setupTransforms, the resize listener and
\* startAnimationLoop (part_000 lines 29-39), then the unload listener of
\* index.ts (lines 22-24).
DeviceResolved ==
  /\ pc = "awaitDevice"
  /\ depthStencilTexture' = createDepthStencilTexture(canvas)
  /\ pipelines' = {objectPipeline, transparentPipeline, stencilPipeline}
  /\ camera' = newCameraController(Vec3(0, 0, 5 * One), canvas)
  /\ cameraUniformBuffer' = createUniformBuffer(camera')
  /\ faces' = createFaces(CubeSize)
  /\ rotationMatrix' = rotationAt(0)
  /\ rotationTransformBuffer' = writeBuffer(createBuffer(64), 0, rotationMatrix', 16)
  /\ identityTransformBuffer' = setupTransforms
  /\ bindGroups' = {cameraBindGroup, identityBindGroup}
  /\ created' = {"depthStencilTexture", "cameraUniformBuffer", "stencilManager",
                 "transparentCube", "innerCube", "innerSphere",
                 "identityTransformBuffer", "resizeListener", "unloadListener"}
  /\ animationFrameId' = nextFrameId
  /\ pending' = pending \cup {nextFrameId}
  /\ nextFrameId' = nextFrameId + 1
  /\ pc' = "idle"
  /\ UNCHANGED <<libraryVars, hostVars, window, canvas, i, frame, renders, stopped, errorShown>>

\* The user resizes the window while no resize listener is registered.
WindowResize(w, h) ==
  /\ pc \in {"awaitAdapter", "awaitDevice"}
  /\ window' = [innerWidth |-> w, innerHeight |-> h]
  /\ UNCHANGED <<libraryVars, hostVars, canvas, depthStencilTexture, pc, i, created, deviceVars,
                 cameraVars, cubeVars, identityTransformBuffer, loopVars, frame, renders,
                 stopped, errorShown>>

\* The window is resized to w x h and the resize listener runs:
\* VelesPortals.handleResize -> Renderer.handleResize (lines 391-402).
Resize(w, h) ==
  /\ pc = "idle"
  /\ "resizeListener" \in created
  /\ window' = [innerWidth |-> w, innerHeight |-> h]
  /\ canvas' = sizedToWindow(window')
  /\ depthStencilTexture' = createDepthStencilTexture(canvas')
  /\ camera' = cameraHandleResize(camera, canvas')
  /\ UNCHANGED <<libraryVars, hostVars, pc, i, created, deviceVars, cameraUniformBuffer, cubeVars,
                 identityTransformBuffer, loopVars, frame, renders, stopped, errorShown>>

\* VelesPortals.cleanup -> Renderer.cleanup (lines 451-454), as the unload
\* listener of index.ts calls it.
Cleanup ==
  /\ pc = "idle"
  /\ "unloadListener" \in created
  /\ pending' = stopAnimationLoop(pending, animationFrameId)
  /\ stopped' = noteStop(stopped, renders)
  /\ depthStencilTexture' = destroy(depthStencilTexture)
  /\ UNCHANGED <<libraryVars, hostVars, window, canvas, pc, i, created, deviceVars, cameraVars,
                 cubeVars, identityTransformBuffer, animationFrameId, nextFrameId, frame,
                 renders, errorShown>>

\* The host runs the pending request id with timestamp t: animate, lines
\* 422-427, up to the call of the render function.
Tick(id, t) ==
  /\ pc = "idle"
  /\ id \in pending
  /\ t > now
  /\ pending' = pending \ {id}
  /\ now' = t
  /\ time' = t
  /\ camera' = orbitCamera(camera, t)
  /\ frame' = << >>
  /\ pc' = "render"
  /\ UNCHANGED <<libraryVars, gpu, surfaceVars, i, created, deviceVars, cameraUniformBuffer, cubeVars,
                 identityTransformBuffer, animationFrameId, nextFrameId, renders, stopped,
                 errorShown>>

\* VelesPortals.render, lines 102-112: updateRotation(time) (Renderer.ts
\* lines 1015-1035), the frame's transform bind group, beginRenderPass.
RenderBegin ==
  /\ pc = "render"
  /\ renders' = renders + 1
  /\ rotationMatrix' = rotationAt(time)
  /\ rotationTransformBuffer' = writeBuffer(rotationTransformBuffer, 0, rotationMatrix', 16)
  /\ frame' = frame \o <<writeCommand("rotationTransformBuffer", 0, 16),
                         beginRenderPass(depthStencilTexture)>>
  /\ i' = 0
  /\ pc' = "pass1"
  /\ UNCHANGED <<libraryVars, hostVars, surfaceVars, created, deviceVars, cameraVars, faces,
                 identityTransformBuffer, loopVars, stopped, errorShown>>

\* VelesPortals.render, lines 119-127: one iteration of faces.forEach.
DrawStencilMask ==
  /\ pc = "pass1"
  /\ i < Len(faces)
  /\ frame' = Append(frame, renderStencilMask(faces[i + 1].geometry,
                       faces[i + 1].stencilValue, cameraBindGroup, cubeTransformBindGroup))
  /\ IF i + 1 < Len(faces)
     THEN i' = i + 1 /\ UNCHANGED pc
     ELSE i' = 0 /\ pc' = afterStencilMasks
  /\ UNCHANGED <<libraryVars, hostVars, surfaceVars, created, deviceVars, cameraVars, cubeVars,
                 identityTransformBuffer, loopVars, renders, stopped, errorShown>>

\* VelesPortals.render, lines 130-149: one iteration of the loop of pass 2.
DrawInnerSolid ==
  /\ pc = "pass2"
  /\ i < Len(faces)
  /\ frame' = Append(frame, renderObject(innerSolid(i), gateStencilValue(i),
                                          innerTransformBindGroup))
  /\ IF i + 1 < Len(faces)
     THEN i' = i + 1 /\ UNCHANGED pc
     ELSE i' = 0 /\ pc' = afterInnerSolids
  /\ UNCHANGED <<libraryVars, hostVars, surfaceVars, created, deviceVars, cameraVars, cubeVars,
                 identityTransformBuffer, loopVars, renders, stopped, errorShown>>

\* VelesPortals.render, lines 152-156.
DrawOuterShell ==
  /\ pc = "pass3"
  /\ frame' = Append(frame, renderTransparentObject(outerCubeGeometry,
                                                     cubeTransformBindGroup))
  /\ pc' = afterOuterShell
  /\ UNCHANGED <<libraryVars, hostVars, surfaceVars, i, created, deviceVars, cameraVars, cubeVars,
                 identityTransformBuffer, loopVars, renders, stopped, errorShown>>

\* VelesPortals.render, line 159: Renderer.endRenderPass (lines 497-503).
EndRenderPass ==
  /\ pc = "endPass"
  /\ frame' = frame \o <<[op |-> "end"], [op |-> "submit"]>>
  /\ pc' = "request"
  /\ UNCHANGED <<libraryVars, hostVars, surfaceVars, i, created, deviceVars, cameraVars, cubeVars,
                 identityTransformBuffer, loopVars, renders, stopped, errorShown>>

\* animate, line 433: the next frame is requested.
RequestFrame ==
  /\ pc = "request"
  /\ animationFrameId' = nextFrameId
  /\ pending' = pending \cup {nextFrameId}
  /\ nextFrameId' = nextFrameId + 1
  /\ pc' = "idle"
  /\ UNCHANGED <<libraryVars, hostVars, surfaceVars, i, created, deviceVars, cameraVars, cubeVars,
                 identityTransformBuffer, frame, renders, stopped, errorShown>>

Next ==
  \/ Load
  \/ AdapterResolved
  \/ DeviceResolved
  \/ \E w \in Dims, h \in Dims : WindowResize(w, h)
  \/ \E w \in Dims, h \in Dims : Resize(w, h)
  \/ Cleanup
  \/ \E id \in pending, t \in Times : Tick(id, t)
  \/ RenderBegin
  \/ DrawStencilMask
  \/ DrawInnerSolid
  \/ DrawOuterShell
  \/ EndRenderPass
  \/ RequestFrame

Spec == Init /\ [][Next]_vars

(***************************************************************************)
(* The frame loop under a render function that itself stops the loop:      *)
(* Renderer.startAnimationLoop takes any render function, and              *)
(* stopAnimationLoop is public.                                            *)
(***************************************************************************)
\* The render function calls renderer.stopAnimationLoop() before it returns.
StopInCallback ==
  /\ pc \in {"pass1", "pass2", "pass3", "endPass", "request"}
  /\ ~stopped.called
  /\ pending' = stopAnimationLoop(pending, animationFrameId)
  /\ stopped' = noteStop(stopped, renders)
  /\ UNCHANGED <<libraryVars, hostVars, surfaceVars, pc, i, created, deviceVars, cameraVars, cubeVars,
                 identityTransformBuffer, animationFrameId, nextFrameId, frame, renders,
                 errorShown>>

NextCallback == Next \/ StopInCallback

SpecCallback == Init /\ [][NextCallback]_vars

(***************************************************************************)
(* The frame loop under a page that calls the public startAnimationLoop    *)
(* and stopAnimationLoop of the Renderer itself, between events.           *)
(***************************************************************************)
\* Renderer.startAnimationLoop (lines 421-437) called on a renderer whose loop
\* was started before: line 436 requests a frame and overwrites the id.
StartAnimationLoop ==
  /\ pc = "idle"
  /\ "resizeListener" \in created
  /\ nextFrameId <= MaxRequests
  /\ animationFrameId' = nextFrameId
  /\ pending' = pending \cup {nextFrameId}
  /\ nextFrameId' = nextFrameId + 1
  /\ UNCHANGED <<libraryVars, hostVars, surfaceVars, pc, i, created, deviceVars, cameraVars,
                 cubeVars, identityTransformBuffer, frame, renders, stopped, errorShown>>

\* Renderer.stopAnimationLoop (lines 442-446) called between events.
StopAnimationLoop ==
  /\ pc = "idle"
  /\ "resizeListener" \in created
  /\ pending' = stopAnimationLoop(pending, animationFrameId)
  /\ stopped' = noteStop(stopped, renders)
  /\ UNCHANGED <<libraryVars, hostVars, surfaceVars, pc, i, created, deviceVars, cameraVars,
                 cubeVars, identityTransformBuffer, animationFrameId, nextFrameId, frame,
                 renders, errorShown>>

NextRestart == Next \/ StartAnimationLoop \/ StopAnimationLoop

SpecRestart == Init /\ [][NextRestart]_vars

(***************************************************************************)
(* The library called on its own.  BoxGeometry, SphereGeometry and the     *)
(* functions of src/utils/math.ts are exported and take any arguments; a   *)
(* behaviour here is one call: the arguments, then the returned value.     *)
(***************************************************************************)
BoxSizes == {-800, 0} \cup {800 * k : k \in 1..MaxBox}
Segments == {500 * k : k \in -1..(2 * MaxSegments)}
\* Widths of spheres of more than 2^16 vertices, from 3 * 21846 = 65538 on.
LargeSegments == {21845 * One, 21846 * One, 65536 * One}
Angles == 0..MaxAngle
\* 1 is the least positive float, 0.001.
Coords == {One * k : k \in -MaxCoord..MaxCoord} \cup {1}
Positions3 == {Vec3(0, 0, 0), Vec3(One, 2 * One, 3 * One)}
Scales == {Vec3(One, One, One), Vec3(2 * One, 2 * One, 2 * One), Vec3(2 * One, One, 3 * One)}
Colors == {Vec4(One, 200, 200, One), Vec4(900, 900, 900, 50)}

InitLibrary ==
  /\ gpu = [present |-> FALSE, adapter |-> FALSE]
  /\ window = [innerWidth |-> 0, innerHeight |-> 0]
  /\ PageNotLoaded
  /\ result = NotReturned
  /\ \/ \E w \in BoxSizes, h \in BoxSizes, d \in BoxSizes, c \in Colors, p \in Positions3 :
          call = [fn |-> "BoxGeometry.create", width |-> w, height |-> h, depth |-> d,
                  color |-> c, position |-> p]
     \/ \E w \in Segments, h \in Segments, p \in Positions3 :
          call = [fn |-> "SphereGeometry.create", radius |-> 600, widthSegments |-> w,
                  heightSegments |-> h, color |-> Vec4(200, 200, One, One), position |-> p]
     \/ \E w \in Segments \cup LargeSegments, h \in Segments :
          \E iy \in 0..(clampSegments(2, h) - 1), ix \in {0, clampSegments(3, w) - 1} :
            call = [fn |-> "SphereGeometry.create indices", widthSegments |-> w,
                    heightSegments |-> h, iy |-> iy, ix |-> ix]
     \/ \E x \in Angles, y \in Angles, z \in Angles :
          call = [fn |-> "createRotationMatrix", x |-> x, y |-> y, z |-> z]
     \/ \E x \in Coords, y \in Coords, z \in Coords :
          call = [fn |-> "normalizeVector", v |-> Vec3(x, y, z)]
     \/ \E p \in Positions3, x \in Angles, z \in Angles, s \in Scales :
          call = [fn |-> "createModelMatrix", position |-> p, rotation |-> Vec3(x, 0, z),
                  scale |-> s]

pageVars ==
  <<gpu, window, canvas, pc, i, now, time, created, depthStencilTexture, pipelines,
    bindGroups, camera, cameraUniformBuffer, faces, rotationMatrix,
    rotationTransformBuffer, identityTransformBuffer, animationFrameId, pending,
    nextFrameId, frame, renders, stopped, errorShown>>

Return(value) ==
  /\ ~result.returned
  /\ result' = [returned |-> TRUE, value |-> value]
  /\ UNCHANGED <<call, pageVars>>

CallBoxGeometryCreate ==
  /\ call.fn = "BoxGeometry.create"
  /\ Return(BoxGeometry_create(call.width, call.height, call.depth, call.color,
                               call.position))

CallSphereGeometryCreate ==
  /\ call.fn = "SphereGeometry.create"
  /\ Return(SphereGeometry_create(call.radius, call.widthSegments, call.heightSegments,
                                  call.color, call.position))

\* One iteration of the index loops of SphereGeometry.create and the upload
\* of what it pushed.
CallSphereIndexBody ==
  /\ call.fn = "SphereGeometry.create indices"
  /\ Return(sphereIndexBody(call.iy, call.ix, clampSegments(3, call.widthSegments),
                            clampSegments(2, call.heightSegments)))

CallCreateRotationMatrix ==
  /\ call.fn = "createRotationMatrix"
  /\ Return(createRotationMatrix(call.x, call.y, call.z))

CallNormalizeVector ==
  /\ call.fn = "normalizeVector"
  /\ Return(normalizeVector(call.v))

CallCreateModelMatrix ==
  /\ call.fn = "createModelMatrix"
  /\ Return(createModelMatrix(call.position, call.rotation, call.scale))

NextLibrary ==
  \/ CallBoxGeometryCreate
  \/ CallSphereGeometryCreate
  \/ CallSphereIndexBody
  \/ CallCreateRotationMatrix
  \/ CallNormalizeVector
  \/ CallCreateModelMatrix

SpecLibrary == InitLibrary /\ [][NextLibrary]_vars

\* The call of fn has returned.
Returned(fn) == call.fn = fn /\ result.returned

(***************************************************************************)
(* Properties.                                                             *)
(***************************************************************************)
\* The draw calls of the running (or last) tick, in the order issued.
Draws == SelectSeq(frame, LAMBDA e : e.op = "drawIndexed")

\* The positions in frame of the commands of kind op.
Positions(op) == {k \in 1..Len(frame) : frame[k].op = op}

\* The render callback is between its first draw and its return.
InRenderPass == pc \in {"pass1", "pass2", "pass3", "endPass"}

\* The last tick ran its render callback to the end.
FrameDone == Positions("submit") # {}

\* C1: in every frame the draws come in the fixed 3-pass order: six
\* stencil-mask draws, face by face and each with its face's stencil value as
\* reference, then six stencil-gated inner-solid draws, then one transparent
\* outer-shell draw; a finished frame holds all 13, and every draw lies after
\* the begin of the render pass and before its end and submit.
C1_ThreePassOrder ==
  /\ Len(Draws) <= 13
  /\ \A k \in 1..Len(Draws) :
       /\ k <= 6 =>
            /\ Draws[k].pipeline = "stencil"
            /\ Draws[k].stencilReference = faces[k].stencilValue
            /\ Draws[k].geometry = faces[k].geometry.id
       /\ (k >= 7 /\ k <= 12) => Draws[k].pipeline = "object"
       /\ k = 13 => Draws[k].pipeline = "transparent"
  /\ \A k \in Positions("drawIndexed") :
       /\ \E b \in Positions("beginRenderPass") : b < k
       /\ \A e \in Positions("end") \cup Positions("submit") : k < e
  /\ FrameDone => Len(Draws) = 13
  /\ (pc \in {"request", "idle"} /\ renders > 0) => FrameDone

C1_Witness == pc = "request" /\ FrameDone /\ Len(Draws) = 13 /\ renders = 2

\* C2: at every draw call the camera uniform buffer holds the camera's
\* current view matrix at byte offset 0 and its current projection matrix at
\* byte offset 64.
C2_CameraBufferCurrent ==
  InRenderPass =>
    \A k \in 0..15 :
      /\ At(cameraUniformBuffer, k) = At(camera.viewMatrix, k)
      /\ At(cameraUniformBuffer, 16 + k) = At(camera.projectionMatrix, k)

\* C3: once stopAnimationLoop has been called, also from inside the render
\* callback, the render callback is not entered again and no frame request
\* is pending or made.
C3_StopIsFinal ==
  stopped.called => (pending = {} /\ renders = stopped.renders /\ pc # "render")

\* C4: when navigator.gpu is absent or no adapter is acquired, initialization
\* ends in the error shown to the user, and nothing was created: no
\* geometry, no transform buffer, no resize listener, no frame request.
C4_InitFailureSurfaced ==
  /\ (~gpu.present /\ pc # "start") => pc = "failed"
  /\ (~gpu.adapter /\ pc \notin {"start", "awaitAdapter"}) => pc = "failed"
  /\ pc = "failed" =>
       /\ errorShown
       /\ created = {}
       /\ faces = << >>
       /\ identityTransformBuffer = createBuffer(64)
       /\ rotationTransformBuffer = createBuffer(64)
       /\ pending = {}
       /\ animationFrameId = 0
       /\ renders = 0

C4_Witness == pc = "failed" /\ gpu.present /\ ~gpu.adapter /\ errorShown

\* A step in which the resize listener ran.
ResizeStep ==
  /\ pc = "idle" /\ pc' = "idle"
  /\ "resizeListener" \in created
  /\ \/ window' # window
     \/ canvas' # canvas
     \/ depthStencilTexture' # depthStencilTexture /\ ~depthStencilTexture'.destroyed

\* C5: a resize replaces the depth-stencil texture by a live one of the new
\* canvas width and height and recomputes the projection from the new aspect
\* ratio; camera position, view matrix, cube rotation matrix and buffer,
\* identity buffer, pipelines, bind groups and the animation-frame handle do
\* not change.
C5_ResizeChangesOnlySurfaceAndProjection ==
  [][ResizeStep =>
       /\ canvas' = [width |-> window'.innerWidth, height |-> window'.innerHeight]
       /\ depthStencilTexture' =
            [width |-> canvas'.width, height |-> canvas'.height, destroyed |-> FALSE]
       /\ At(camera'.projectionMatrix, 0) =
            FloatDiv(2414, FloatDiv(canvas'.width, canvas'.height))
       /\ \A k \in 1..15 : At(camera'.projectionMatrix, k) = At(camera.projectionMatrix, k)
       /\ camera'.position = camera.position
       /\ camera'.viewMatrix = camera.viewMatrix
       /\ UNCHANGED <<rotationMatrix, rotationTransformBuffer, identityTransformBuffer,
                      cameraUniformBuffer, pipelines, bindGroups, faces,
                      animationFrameId, pending, created>>]_vars

\* A resize acted after a frame: the projection is no longer the one the
\* camera buffer was filled with, and the texture has the canvas's size.
C5_Witness ==
  /\ pc = "idle" /\ renders > 0
  /\ At(camera.projectionMatrix, 0) # At(cameraUniformBuffer, 16)
  /\ ~depthStencilTexture.destroyed
  /\ depthStencilTexture.width = canvas.width
  /\ camera.position # Vec3(0, 0, 5 * One)

\* C6: once the TransparentCube exists it has exactly six face masks whose
\* stencil values are a bijection onto 1..6, and no step changes the number
\* of faces or a stencil value.
C6_FaceMaskBijection ==
  /\ []("transparentCube" \in created =>
          /\ Len(faces) = 6
          /\ {faces[n].stencilValue : n \in 1..Len(faces)} = 1..6)
  /\ [][("transparentCube" \in created) =>
          /\ Len(faces') = Len(faces)
          /\ \A n \in 1..Len(faces) : faces'[n].stencilValue = faces[n].stencilValue]_vars

C6_Witness ==
  /\ "transparentCube" \in created /\ renders = 1 /\ pc = "idle"
  /\ rotationMatrix # createIdentityMatrix
  /\ Len(faces) = 6

\* C7: the gated draw for face index n (n = 0..5) has stencil reference
\* n + 1, which is the reference of face n's stencil-mask draw, draws the
\* inner cube iff n is even and the inner sphere iff n is odd, and binds the
\* identity transform buffer, never the rotation buffer.
C7_GatedDraws ==
  \A k \in 7..Len(Draws) :
    k <= 12 =>
      LET n == k - 7
      IN /\ Draws[k].pipeline = "object"
         /\ Draws[k].stencilReference = n + 1
         /\ Draws[n + 1].pipeline = "stencil"
         /\ Draws[k].stencilReference = Draws[n + 1].stencilReference
         /\ (n % 2 = 0) => Draws[k].geometry = innerCubeGeometry.id
         /\ (n % 2 = 1) => Draws[k].geometry = innerSphereGeometry.id
         /\ Draws[k].group1 = "identityTransformBuffer"
         /\ Draws[k].group1 # "rotationTransformBuffer"

C7_Witness == pc = "pass3" /\ Len(Draws) = 12 /\ Draws[12].stencilReference = 6

\* The projection matrix m is the perspective matrix of a canvas of positive
\* width and height: finite, and m[0] * width = m[5] * height within 1%.
ValidPerspective(m, cv) ==
  /\ \A k \in 0..15 : IsFinite(At(m, k))
  /\ At(m, 0) > 0
  /\ At(m, 5) > 0
  /\ Abs(At(m, 0) * cv.width - At(m, 5) * cv.height) * 100 <= At(m, 5) * cv.height
  /\ At(m, 11) = -One
  /\ At(m, 15) = 0

\* The projection matrix m has no usable horizontal scale.
DegeneratePerspective(m) == At(m, 0) \in {0, PosInf, -PosInf, NaN}

\* C8: a resize to a zero-width or zero-height canvas is no error: the
\* handler returns to the idle page with no error shown and the pending frame
\* request untouched; the projection is degenerate exactly while the canvas
\* has zero area, and is the valid perspective matrix of the canvas whenever
\* the canvas has positive width and height.
C8_ZeroAreaResize ==
  /\ []("cameraUniformBuffer" \in created =>
          IF canvas.width > 0 /\ canvas.height > 0
          THEN ValidPerspective(camera.projectionMatrix, canvas)
          ELSE DegeneratePerspective(camera.projectionMatrix))
  /\ [][(ResizeStep /\ (canvas'.width = 0 \/ canvas'.height = 0)) =>
          /\ pc' = "idle"
          /\ ~errorShown'
          /\ pending' = pending
          /\ animationFrameId' = animationFrameId]_vars

\* A frame was drawn to its end on a canvas of height zero, after a setup on
\* a canvas of positive area.
C8_Witness ==
  /\ pc = "request" /\ FrameDone
  /\ canvas.height = 0 /\ canvas.width > 0
  /\ At(cameraUniformBuffer, 16) > 0 /\ IsFinite(At(cameraUniformBuffer, 16))
  /\ At(camera.projectionMatrix, 0) = 0

\* The writes to the rotation transform buffer the running tick queued.
RotationWrites ==
  {k \in Positions("writeBuffer") : frame[k].buffer = "rotationTransformBuffer"}

OnCubeFace(n, v, size) ==
  LET h == FloatDiv(size, 2 * One)
      inside(a) == -h <= a /\ a <= h
  IN CASE n = 1 -> v.z = h /\ inside(v.x) /\ inside(v.y)
       [] n = 2 -> v.z = -h /\ inside(v.x) /\ inside(v.y)
       [] n = 3 -> v.y = h /\ inside(v.x) /\ inside(v.z)
       [] n = 4 -> v.y = -h /\ inside(v.x) /\ inside(v.z)
       [] n = 5 -> v.x = h /\ inside(v.y) /\ inside(v.z)
       [] n = 6 -> v.x = -h /\ inside(v.y) /\ inside(v.z)

\* C10: each face-mask quad, as the stencil pass draws it (its own vertices;
\* the draw binds only the shared rotation), lies in the plane of its cube
\* face and inside the face's square.
C10_FaceQuadsOnFaces ==
  \A k \in 1..Len(Draws) :
    k <= 6 =>
      \A j \in 1..4 : OnCubeFace(k, faces[k].geometry.vertices[j], CubeSize)

(***************************************************************************)
(* Geometry builders.                                                      *)
(***************************************************************************)
\* The three vertices of triangle t (0-based) of a mesh.
Triangle(mesh, t) ==
  [k \in 1..3 |-> mesh.vertices[mesh.indices[3 * t + k] + 1]]

Minus(a, b) == Vec3(a.x - b.x, a.y - b.y, a.z - b.z)

\* The normal (v1 - v0) x (v2 - v0) of triangle t.
TriangleNormal(mesh, t) ==
  LET v == Triangle(mesh, t)
  IN crossProduct(Minus(v[2], v[1]), Minus(v[3], v[1]))

\* Triangle t faces away from centre: its normal has a positive component
\* along the direction from centre to the triangle.
FacesOutward(mesh, t, centre) ==
  dotProduct(TriangleNormal(mesh, t), Minus(Triangle(mesh, t)[1], centre)) > 0

\* C11: for every box built by BoxGeometry.create with positive width, height
\* and depth, each of the 12 triangles is wound so that its normal
\* (v1 - v0) x (v2 - v0) points away from the box centre.
C11_BoxWindingOutward ==
  (Returned("BoxGeometry.create") /\ call.width > 0 /\ call.height > 0 /\ call.depth > 0)
    => \A t \in 0..11 : FacesOutward(result.value, t, call.position)

\* C12: for any width, height, depth, color and position BoxGeometry.create
\* produces exactly 24 vertices and 36 indices (indexCount = 36), every index
\* is below 24, and the six indices of face f name only vertices 4f .. 4f+3.
C12_BoxCounts ==
  Returned("BoxGeometry.create") =>
    /\ Len(result.value.vertices) = 24
    /\ Len(result.value.colors) = 24
    /\ Len(result.value.indices) = 36
    /\ result.value.indexCount = 36
    /\ \A n \in 1..36 :
         /\ result.value.indices[n] < 24
         /\ LET f == (n - 1) \div 6
            IN result.value.indices[n] \in (4 * f)..(4 * f + 3)

\* A box with negative width, zero depth, off the origin, has been built.
C12_Witness ==
  /\ Returned("BoxGeometry.create")
  /\ call.width < 0 /\ call.height > 0 /\ call.depth = 0
  /\ call.position # Vec3(0, 0, 0)
  /\ result.value.indexCount = 36

\* The grid row of the vertex that index position n of a sphere names.
RowOf(mesh, n) == mesh.vertices[mesh.indices[n] + 1].iy

\* C13: with W = max(3, floor(widthSegments)) and H = max(2,
\* floor(heightSegments)), SphereGeometry.create generates exactly
\* (W+1)*(H+1) vertices and 6*W*(H-1) indices, and no triangle has two
\* vertices in the same pole row (row 0 or row H).
C13_SphereCounts ==
  Returned("SphereGeometry.create") =>
    LET W == IF call.widthSegments >= 3 * One THEN call.widthSegments \div One ELSE 3
        H == IF call.heightSegments >= 2 * One THEN call.heightSegments \div One ELSE 2
        mesh == result.value
    IN /\ Len(mesh.vertices) = (W + 1) * (H + 1)
       /\ Len(mesh.indices) = 6 * W * (H - 1)
       /\ mesh.indexCount = 6 * W * (H - 1)
       /\ \A t \in 0..(Len(mesh.indices) \div 3 - 1) :
            \A pole \in {0, H} :
              Cardinality({k \in 1..3 : RowOf(mesh, 3 * t + k) = pole}) <= 1

\* A sphere requested with 3.5 by 4 segments has been built: 4 * 5 vertices,
\* with triangles that touch each pole.
C13_Witness ==
  /\ Returned("SphereGeometry.create")
  /\ call.widthSegments = 3500 /\ call.heightSegments = 4000
  /\ Len(result.value.vertices) = 20
  /\ \E n \in 1..Len(result.value.indices) : RowOf(result.value, n) = 0
  /\ \E n \in 1..Len(result.value.indices) : RowOf(result.value, n) = 4

(***************************************************************************)
(* Matrices as the shaders apply them.                                     *)
(***************************************************************************)
\* The points the matrices are applied to.
Points == {Vec3(One, 0, 0), Vec3(0, One, 0), Vec3(0, 0, One), Vec3(One, 2 * One, 3 * One)}

Homogeneous(p) == <<p.x, p.y, p.z, One>>

\* C14: createRotationMatrix(x, y, z), applied to a point as the shaders
\* apply the uploaded block (modelMatrix * vec4(position, 1), column-major),
\* rotates the point about Z first, then about Y, then about X.
C14_RotationOrderZYX ==
  Returned("createRotationMatrix") =>
    \A p \in Points :
      worldPosition(result.value, p) =
        matTimesVec(createRotationXMatrix(call.x),
          matTimesVec(createRotationYMatrix(call.y),
            matTimesVec(createRotationZMatrix(call.z), Homogeneous(p))))

RotationOfZero == createRotationMatrix(0, 0, 0)

\* C15: createRotationMatrix(0, 0, 0) is the identity element for element, so
\* from the construction of the TransparentCube (which ends in
\* updateRotation(0)) until the first frame, the rotation matrix and the
\* contents of the rotation transform buffer are the identity.
C15_RotationZeroIsIdentity ==
  ("transparentCube" \in created /\ renders = 0) =>
       /\ rotationMatrix = RotationOfZero
       /\ \A k \in 0..15 :
            /\ At(rotationMatrix, k) = (IF k \in {0, 5, 10, 15} THEN One ELSE 0)
            /\ At(rotationTransformBuffer, k) = At(rotationMatrix, k)

\* The cube has been constructed and no frame has been drawn yet.
C15_Witness ==
  /\ pc = "idle" /\ "transparentCube" \in created /\ renders = 0
  /\ At(rotationTransformBuffer, 0) = One /\ At(rotationTransformBuffer, 1) = 0

(***************************************************************************)
(* Camera triggers.                                                        *)
(***************************************************************************)
\* The host runs the frame callback, which starts with orbitCamera.
TickStep == pc = "idle" /\ pc' = "render"

\* The canvas has the aspect ratio num : 1.
HasAspect(cv, num) == cv.height > 0 /\ cv.width = num * cv.height

\* C16: handleResize changes only the projection matrix (position and view
\* matrix stay), and from aspect 1.0 to aspect 2.0 only projection element
\* (0,0) changes, to half its value, the other 15 elements staying;
\* orbitCamera changes position and view matrix and leaves the projection.
C16_CameraTriggersIndependent ==
  [][/\ ResizeStep =>
          /\ camera'.position = camera.position
          /\ camera'.viewMatrix = camera.viewMatrix
          /\ (HasAspect(canvas, 1) /\ HasAspect(canvas', 2)) =>
               /\ At(camera.projectionMatrix, 0) > 0
               /\ 2 * At(camera'.projectionMatrix, 0) = At(camera.projectionMatrix, 0)
               /\ \A k \in 1..15 :
                    At(camera'.projectionMatrix, k) = At(camera.projectionMatrix, k)
     /\ TickStep =>
          /\ camera'.projectionMatrix = camera.projectionMatrix
          /\ camera'.position.y = 1500
          /\ camera'.viewMatrix =
               createViewMatrix(camera'.position, Vec3(0, 0, 0), Vec3(0, One, 0))]_vars

\* The camera was built at aspect 1.0 (its buffer still holds that
\* projection), has orbited, and the canvas has been resized to aspect 2.0.
C16_Witness ==
  /\ pc = "idle" /\ renders > 0
  /\ HasAspect(canvas, 2)
  /\ At(cameraUniformBuffer, 16) = 2414
  /\ At(camera.projectionMatrix, 0) = 1207
  /\ camera.position.y = 1500

(***************************************************************************)
(* normalizeVector and createModelMatrix.                                  *)
(***************************************************************************)
\* The length of v, to the last digit: the integer square root of the exact
\* sum of squares.
ExactLength(v) == SqrtSearch(v.x * v.x + v.y * v.y + v.z * v.z, 0, 46000)

\* r is v divided by length, to within two units of the last digit.
IsQuotient(r, v, length) ==
  /\ Abs(r.x * length - v.x * One) <= 2 * length
  /\ Abs(r.y * length - v.y * One) <= 2 * length
  /\ Abs(r.z * length - v.z * One) <= 2 * length

\* C17: normalizeVector of the zero vector returns the zero vector, with no
\* NaN; for every non-zero input it returns the input divided by its length.
C17_NormalizeVector ==
  Returned("normalizeVector") =>
    /\ IsFinite(result.value.x) /\ IsFinite(result.value.y) /\ IsFinite(result.value.z)
    /\ call.v = Vec3(0, 0, 0) => result.value = Vec3(0, 0, 0)
    /\ call.v # Vec3(0, 0, 0) => IsQuotient(result.value, call.v, ExactLength(call.v))

\* C20: createModelMatrix(pos, rot, scale), applied to a point as the shaders
\* apply an uploaded matrix, scales the point first, then rotates it, then
\* translates it by pos.
C20_ModelMatrixScaleRotateTranslate ==
  Returned("createModelMatrix") =>
    \A p \in Points :
      worldPosition(result.value, p) =
        matTimesVec(createTranslationMatrix(call.position.x, call.position.y, call.position.z),
          matTimesVec(createRotationMatrix(call.rotation.x, call.rotation.y, call.rotation.z),
            matTimesVec(createScalingMatrix(call.scale.x, call.scale.y, call.scale.z),
                        Homogeneous(p))))

(***************************************************************************)
(* Pipelines: binding slots and per-fragment effects.                      *)
(***************************************************************************)
\* The slot (group, binding) is defined by the pipeline layout.
InLayout(layout, slot) ==
  slot.group < Len(layout) /\ slot.binding \in At(layout, slot.group)

\* C18: for each of the three pipelines the vertex shader declares the camera
\* block at group 0 binding 0 and the transform block at group 1 binding 0,
\* which is where the pipeline layout defines them and where the draws bind
\* the camera buffer and a transform buffer.
C18_ShaderBindingsMatchLayout ==
  /\ \A p \in pipelines :
       /\ p.vertex.camera = [group |-> 0, binding |-> 0]
       /\ p.vertex.transform = [group |-> 1, binding |-> 0]
       /\ InLayout(p.layout, p.vertex.camera)
       /\ InLayout(p.layout, p.vertex.transform)
  /\ \A k \in 1..Len(Draws) :
       /\ Draws[k].group0 = "cameraUniformBuffer"
       /\ Draws[k].group1 \in {"rotationTransformBuffer", "identityTransformBuffer"}

\* The stencil reference in effect for the draw at position k of commands:
\* the last one set in the pass, 0 if none was.
StencilReference(commands, k) ==
  LET set == {j \in 1..k : /\ commands[j].op = "drawIndexed"
                           /\ "stencilReference" \in DOMAIN commands[j]}
  IN IF set = {} THEN 0
     ELSE commands[CHOOSE j \in set : \A l \in set : l <= j].stencilReference

\* Pixels as a draw may find them, and fragments as a draw may produce them.
SamplePixels == [color : {700}, depth : {500, One}, stencil : 0..6]
SampleFragments == [color : {900}, alpha : {150, One}, depth : {250, 750}]

\* The pipeline created under the name of a draw.
PipelineOf(draw) == CHOOSE p \in pipelines : p.name = draw.pipeline

\* C19: a stencil-mask draw of pass 1 changes neither the colour nor the depth
\* of any pixel, and the draws of passes 2 and 3 change no stencil value, so
\* the stencil buffer at the end of the frame is the one pass 1 left.
C19_StencilOnlyInPassOne ==
  [][(Len(frame') = Len(frame) + 1 /\ frame'[Len(frame')].op = "drawIndexed") =>
       LET draw == frame'[Len(frame')]
           reference == StencilReference(frame', Len(frame'))
       IN \A pixel \in SamplePixels, fragment \in SampleFragments :
            LET out == fragmentOperations(PipelineOf(draw), reference, pixel, fragment)
            IN /\ pc = "pass1" => (out.color = pixel.color /\ out.depth = pixel.depth)
               /\ pc \in {"pass2", "pass3"} => out.stencil = pixel.stencil]_vars

\* A frame has been drawn in which the mask of face 3 stamps a cleared pixel
\* with 3, the inner solid gated on 3 then draws colour and depth there and
\* leaves the 3, and the shell blends over it and leaves the 3 as well.
C19_Witness ==
  /\ pc = "request" /\ Len(Draws) = 13
  /\ LET cleared == [color |-> 0, depth |-> One, stencil |-> 0]
         fragment == [color |-> 900, alpha |-> One, depth |-> 250]
         masked == fragmentOperations(PipelineOf(Draws[3]), StencilReference(Draws, 3),
                                      cleared, fragment)
         filled == fragmentOperations(PipelineOf(Draws[9]), StencilReference(Draws, 9),
                                      masked, [fragment EXCEPT !.depth = 750])
         shelled == fragmentOperations(PipelineOf(Draws[13]), StencilReference(Draws, 13),
                                       filled, [fragment EXCEPT !.alpha = 150])
     IN /\ masked = [cleared EXCEPT !.stencil = 3]
        /\ filled = [color |-> 900, depth |-> 750, stencil |-> 3]
        /\ shelled.stencil = 3 /\ shelled.depth = 250 /\ shelled.color = 900

\* C21: once setupTransforms has run the identity transform buffer holds the
\* identity matrix, in every later state; the only step that writes it is the
\* setup step, the only steps that write the rotation transform buffer are
\* those that run TransparentCube.updateRotation (the constructor, at setup,
\* and the start of the render function), the camera buffer is written only
\* where the CameraController is constructed, and the only buffer write a
\* tick queues is the one of the rotation transform buffer.
C21_BufferWriters ==
  [][/\ "identityTransformBuffer" \in created'
        => identityTransformBuffer' = createIdentityMatrix
     /\ identityTransformBuffer' # identityTransformBuffer => pc = "awaitDevice"
     /\ rotationTransformBuffer' # rotationTransformBuffer
        => pc \in {"awaitDevice", "render"}
     /\ cameraUniformBuffer' # cameraUniformBuffer => pc = "awaitDevice"
     /\ \A k \in DOMAIN frame' :
          frame'[k].op = "writeBuffer"
            => frame'[k].buffer = "rotationTransformBuffer" /\ k = 1]_vars

\* Two frames were drawn, the rotation buffer was rewritten away from the
\* identity, and cleanup has run: the identity buffer still holds the identity.
C21_Witness ==
  /\ renders >= 2
  /\ stopped.called
  /\ depthStencilTexture.destroyed
  /\ rotationTransformBuffer # createIdentityMatrix
  /\ identityTransformBuffer = createIdentityMatrix

\* C22: once cleanup has run, the depth-stencil texture stays released and no
\* render pass is begun: in every state after cleanup the renderer's
\* depth-stencil texture is a destroyed one and no tick is running.
C22_ReleasedAfterCleanup ==
  stopped.called => depthStencilTexture.destroyed /\ pc = "idle"

(***************************************************************************)
(* What a submitted frame does to one pixel of the attachments.            *)
(***************************************************************************)
\* createRenderPipeline: the pipeline is valid only if every block its shader
\* uses is defined by the layout it is created with.
validPipeline(pipeline) ==
  /\ InLayout(pipeline.layout, pipeline.vertex.camera)
  /\ InLayout(pipeline.layout, pipeline.vertex.transform)

\* The fragment a draw produces at the pixel, where its geometry covers it.
FragmentOf(draw) == [color |-> 900, alpha |-> One, depth |-> 250]

\* The first n commands of the frame executed in order on a pixel; covering
\* is the set of geometries (by id) whose triangles cover the pixel.
RECURSIVE executeCommands(_, _, _, _)
executeCommands(commands, n, pixel, covering) ==
  IF n = 0 THEN pixel
  ELSE LET before == executeCommands(commands, n - 1, pixel, covering)
           command == commands[n]
       IN IF command.op = "beginRenderPass"
          THEN [color |-> command.clearValue, depth |-> command.depthClearValue,
                stencil |-> command.stencilClearValue]
          ELSE IF command.op = "drawIndexed" /\ command.geometry \in covering
          THEN fragmentOperations(PipelineOf(command), StencilReference(commands, n),
                                  before, FragmentOf(command))
          ELSE before

\* queue.submit of the frame's command buffer: a pass that sets an invalid
\* pipeline makes the command buffer invalid, and the submit of an invalid
\* command buffer executes none of it.  The pixel after the first n commands.
attachmentsAfter(commands, n, pixel, covering) ==
  IF \A k \in DOMAIN commands :
       commands[k].op = "drawIndexed" => validPipeline(PipelineOf(commands[k]))
  THEN executeCommands(commands, n, pixel, covering)
  ELSE pixel

\* The position of the last stencil-mask draw of the frame.
EndOfPassOne ==
  CHOOSE n \in Positions("drawIndexed") :
    /\ frame[n].pipeline = "stencil"
    /\ \A k \in Positions("drawIndexed") : frame[k].pipeline = "stencil" => k <= n

\* The inner-solid draws of the frame whose stencil test passes at the pixel.
SolidsDrawn(pixel, covering) ==
  {k \in Positions("drawIndexed") :
     /\ frame[k].pipeline = "object"
     /\ LET p == PipelineOf(frame[k])
        IN Compare(p.stencilCompare,
                   BitAnd(StencilReference(frame, k), p.stencilReadMask),
                   BitAnd(attachmentsAfter(frame, k - 1, pixel, covering).stencil,
                          p.stencilReadMask))}

\* C23: when a frame has been submitted, whatever the attachments held
\* before, a pixel no face quad covers has stencil 0 at the end of pass 1 and
\* a pixel some face quads cover has the stencil value of the highest-index
\* face covering it; so at most one inner solid passes the stencil test at the
\* pixel, the cube where the value is odd, the sphere where it is even and
\* positive, none where it is 0.
C23_StencilAfterPassOne ==
  FrameDone =>
    \A pixel \in SamplePixels, quads \in SUBSET (1..6) :
      LET covering == quads \cup {outerCubeGeometry.id, innerCubeGeometry.id,
                                  innerSphereGeometry.id}
          stencil == attachmentsAfter(frame, EndOfPassOne, pixel, covering).stencil
          drawn == SolidsDrawn(pixel, covering)
      IN /\ quads = {} => stencil = 0
         /\ quads # {} =>
              stencil = faces[CHOOSE n \in quads : \A m \in quads : m <= n].stencilValue
         /\ Cardinality(drawn) <= 1
         /\ stencil = 0 => drawn = {}
         /\ \A k \in drawn :
              frame[k].geometry = IF stencil % 2 = 1 THEN innerCubeGeometry.id
                                  ELSE innerSphereGeometry.id

\* C24: while a render pass is open, the depth-stencil texture attached to it
\* is the renderer's current one, has not been destroyed, and has the width
\* and height of the canvas, whatever ticks, resizes and cleanup came before.
C24_PassAttachmentLive ==
  InRenderPass =>
    \A k \in Positions("beginRenderPass") :
      /\ frame[k].depthStencil = depthStencilTexture
      /\ ~frame[k].depthStencil.destroyed
      /\ frame[k].depthStencil.width = canvas.width
      /\ frame[k].depthStencil.height = canvas.height

\* A pass is open on a canvas twice as wide as high, while the camera buffer
\* still holds the projection of a square canvas: the window was resized
\* since start-up, and the pass has the texture of the new size.
C24_Witness ==
  /\ InRenderPass
  /\ HasAspect(canvas, 2)
  /\ At(cameraUniformBuffer, 16) = 2414
  /\ \E k \in Positions("beginRenderPass") :
       /\ ~frame[k].depthStencil.destroyed
       /\ frame[k].depthStencil.width = canvas.width
       /\ frame[k].depthStencil.height = canvas.height

\* C25: in every state at most one animation-frame request is pending, and if
\* one is, animationFrameId is its id, so that one stopAnimationLoop leaves
\* nothing pending -- also when startAnimationLoop was called more than once.
C25_OnePendingRequest ==
  /\ Cardinality(pending) <= 1
  /\ pending # {} => pending = {animationFrameId}
  /\ stopAnimationLoop(pending, animationFrameId) = {}

\* C26: every index in the index buffer of a sphere SphereGeometry.create
\* built equals the grid vertex number computed for it and is the number of
\* one of the (W+1)*(H+1) vertices, also when there are more than 65536; the
\* grid vertex number of the vertex in row iy and column ix is iy*(W+1)+ix.
C26_SphereIndicesExact ==
  /\ Returned("SphereGeometry.create") =>
       LET W == clampSegments(3, call.widthSegments)
           mesh == result.value
       IN /\ \A k \in 1..Len(mesh.vertices) :
               k - 1 = gridNumber(mesh.vertices[k].iy, mesh.vertices[k].ix, W)
          /\ \A n \in 1..Len(mesh.indices) : mesh.indices[n] < Len(mesh.vertices)
  /\ Returned("SphereGeometry.create indices") =>
       LET W == clampSegments(3, call.widthSegments)
           H == clampSegments(2, call.heightSegments)
       IN \A n \in 1..Len(result.value.uploaded) :
            /\ result.value.uploaded[n] = result.value.computed[n]
            /\ result.value.uploaded[n] < (W + 1) * (H + 1)

====
